---- MODULE Spec2Model ----
(***************************************************************************)
(* Model of internal/stdforward (stdforward.go): the two package-level     *)
(* forwarders stdoutForwarder and stderrForwarder, the registration calls  *)
(* AddStdoutWriter / AddStderrWriter / RemoveStdoutWriter /                *)
(* RemoveStderrWriter, the once-guarded interception in addWriter, the     *)
(* copy goroutine (io.Copy(dest, rOut)) and forwarder.Write.               *)
(*                                                                         *)
(* Calls are made by goroutines (Callers); each call is split at the       *)
(* points where other goroutines can interleave: the evaluation of the     *)
(* std argument, the sync.Once gate, the steps of the once body, and the   *)
(* critical section under dest.mu.                                         *)
(***************************************************************************)
EXTENDS Integers, Sequences, FiniteSets, TLC

\* ---------------------------------------------------------------- bounds
MaxEvents == 4      \* Add*/Remove* calls plus application writes in one behaviour
PipeCap == 1        \* chunks an OS pipe buffers before its writer blocks
MaxCaptured == 1    \* writes made through a captured reference in one behaviour
MaxStates == 3      \* states given to WithStateTransition
MaxSignals == 2     \* SIGHUP / SIGINT / SIGTERM sent to the process during Execute

\* ------------------------------------------------------------- universes
Streams == {"stdout", "stderr"}
Callers == {"g1", "g2"}
\* ids and io.Writer values, in the order in which calls first use them (the
\* names are interchangeable, so a call may use the next unused name or a used one)
IdSeq == <<"a", "b">>
WriterSeq == <<"w1", "w2">>
Ids == {IdSeq[i] : i \in DOMAIN IdSeq}
Writers == {WriterSeq[i] : i \in DOMAIN WriterSeq}
None == "none"
NoFile == "nil"
NoCaller == "nobody"

\* *os.File values: the two original destinations and the pipe write ends
Real(s) == IF s = "stdout" THEN "real_stdout" ELSE "real_stderr"
PipeW(f) == IF f = "stdout" THEN "pipew_stdout" ELSE "pipew_stderr"
RealFiles == {Real(s) : s \in Streams}
PipeOf(h) == IF h = "pipew_stdout" THEN "stdout" ELSE "stderr"

VARIABLES
    osStd,      \* the process globals os.Stdout / os.Stderr, by stream
    out,        \* forwarder.out
    writers,    \* forwarder.writers: id -> writer (None: no entry)
    mapAlloc,   \* whether forwarder.writers is a made map (FALSE: nil map)
    mu,         \* forwarder.mu: [w: holder of the write lock, r: readers]
    once,       \* forwarder.once: "fresh", "running", "done"
    pipe,       \* content of the forwarder's pipe (chunks not yet read)
    cl,         \* the copy goroutine of the forwarder (io.Copy + Write)
    th,         \* the calling goroutines
    realLog,    \* chunks passed to Write of each original destination
    recv,       \* chunks passed to Write of each registered io.Writer
    panicked,   \* a goroutine hit a runtime panic
    hist,       \* observation of the run (counters and snapshots)
    cmd         \* a run of Command.Execute (e2e/internal/command)

vars == <<osStd, out, writers, mapAlloc, mu, once, pipe, cl, th, realLog, recv,
          panicked, hist, cmd>>

\* ------------------------------------------------------- pure operators
NoChunk == [s |-> None, n |-> 0]
EmptyMap == [id \in Ids |-> None]

\* mutant: a gate that lets every caller run the body
OnceMayRun_Always(o) == TRUE
\* sync.Once.Do runs its argument only for the first caller
OnceMayRun(o) == o = "fresh"

\* the std argument of addWriter: os.Stdout (line 51) or os.Stderr (line 66),
\* read when the call is made
StdArg(f, globals) == globals[f]

\* the global that the once body overwrites with the pipe's write end:
\* line 95 assigns os.Stdout whatever forwarder dest is
SwapTarget(f) == "stdout"

\* mutant: onceErr is not looked at
AfterOnce_Lock(onceErr) == "lock"
\* lines 97-100: an error set by this call's once body is returned ("idle": the
\* call is over), otherwise the call goes on to dest.mu.Lock()
AfterOnce(onceErr) == IF onceErr THEN "idle" ELSE "lock"

\* mutant: the assignment is dropped
MapInsert_Lost(m, id, w) == m
\* mutant: an existing entry is kept
MapInsert_IfAbsent(m, id, w) == IF m[id] = None THEN [m EXCEPT ![id] = w] ELSE m
\* dest.writers[id] = w
MapInsert(m, id, w) == [m EXCEPT ![id] = w]

\* mutants: the entry is not removed; every entry is removed
MapDelete_Keep(m, id) == m
MapDelete_Clear(m, id) == [i \in Ids |-> None]
\* delete(f.writers, id): no-op when the key is absent or the map is nil
MapDelete(m, id) == [m EXCEPT ![id] = None]

\* the keys a range over f.writers visits
RangeIds(m) == {id \in Ids : m[id] # None}

\* mutant: nothing is forwarded when the write to f.out failed
BroadcastIds_OnlyIfWritten(m, short) == IF short THEN {} ELSE RangeIds(m)
\* lines 30-37: a failed write to f.out is only logged; the range visits every
\* key of f.writers whatever that write returned
BroadcastIds(m, short) == RangeIds(m)

\* mutant: a failed w.Write ends the range
RestAfterWrite_Stop(todo, id, failed) == IF failed THEN {} ELSE todo \ {id}
\* lines 38-40: a failed w.Write is logged and the range goes on
RestAfterWrite(todo, id, failed) == todo \ {id}

\* mutant: a consumer whose Write failed is dropped from the registry
AfterConsumerWrite_Evict(m, id, failed) == IF failed THEN [m EXCEPT ![id] = None] ELSE m
\* lines 38-40: the error of w.Write is passed to log.Warningf and nothing
\* else; f.writers is the same map after the iteration
AfterConsumerWrite(m, id, failed) == m

\* line 29/43: Write returns the count of the write to f.out and a nil error;
\* short is TRUE when that count is below len(p)
WriteShort(outFailed) == outFailed

\* io.Copy(dest, rOut) at line 90 stops on a short count from dest.Write
CopyGoesOn(short) == ~short

\* mutant: an error of a consumer is returned to the caller of Write
WriteReturn_ConsumerErr(short, consumerFailed) == [short |-> short, err |-> consumerFailed]
\* line 43: return n, nil. n is the count of line 29 (short: n < len(p));
\* consumerFailed tells whether a w.Write of the range returned an error
WriteReturn(short, consumerFailed) == [short |-> short, err |-> FALSE]
NoReturn == [short |-> FALSE, err |-> FALSE, none |-> TRUE]

\* mutants: Lock does not wait for the readers; Lock does not wait at all
CanLock_IgnoreReaders(m) == m.w = NoCaller
CanLock_Always(m) == TRUE
\* RWMutex
CanLock(m) == m.w = NoCaller /\ m.r = 0
CanRLock(m) == m.w = NoCaller

\* the values of os.Stdout / os.Stderr when the process starts
InitialStd == [s \in Streams |-> Real(s)]
\* mutant: code that kept a reference uses the global as it is now
CapturedStd_Current(s) == osStd[s]
\* lines 46-49, 61-64: code that read os.Stdout / os.Stderr before anything was
\* intercepted and kept the *os.File
CapturedStd(s) == InitialStd[s]
\* tag of the chunks written through such a reference
Cap(s) == IF s = "stdout" THEN "captured_stdout" ELSE "captured_stderr"

\* ---------------------------------------------------------------- Init
\* observation of a run that is one Register followed by one Unregister of its
\* entry: the number of application writes made before the Register returned
\* (from) and before the Unregister was called (to); Void when a write was
\* made while the Register was running or when the calls are not those two
\* (hist.failed: the writers whose Write returned an error, observed in the
\* runs made of a single Add*Writer call and application writes)
NoSpan == [from |-> -1, to |-> -1]
Void == [from |-> -2, to |-> -1]

IdleThread == [pc |-> "idle", f |-> None, std |-> NoFile, onceErr |-> FALSE,
               again |-> FALSE]
NoBroadcast == [order |-> <<>>, errs |-> {}]

\* no command is run
NoCommand == [pc |-> "off"]

InitForwarders ==
    /\ osStd = InitialStd
    /\ out = [f \in Streams |-> NoFile]
    /\ writers = [f \in Streams |-> EmptyMap]
    /\ mapAlloc = [f \in Streams |-> FALSE]
    /\ mu = [f \in Streams |-> [w |-> NoCaller, r |-> 0]]
    /\ once = [f \in Streams |-> "fresh"]
    /\ pipe = [f \in Streams |-> <<>>]
    /\ cl = [f \in Streams |-> [pc |-> "none", chunk |-> NoChunk, short |-> FALSE,
                                todo |-> {}, ret |-> NoReturn]]
    /\ th = [t \in Callers |-> IdleThread]
    /\ realLog = [h \in RealFiles |-> <<>>]
    /\ recv = [w \in Writers |-> <<>>]
    /\ panicked = FALSE
    /\ hist = [nops |-> 0, nprod |-> 0, ncap |-> [s \in Streams |-> 0],
               pipes |-> [f \in Streams |-> 0],
               pipeFail |-> [f \in Streams |-> 0],
               swaps |-> [f \in Streams |-> 0],
               tasks |-> [f \in Streams |-> 0],
               errRet |-> [f \in Streams |-> 0],
               errId |-> [f \in Streams |-> None],
               failIns |-> FALSE,
               againNil |-> FALSE,
               reg |-> [f \in Streams |-> EmptyMap],
               churn |-> [f \in Streams |-> FALSE],
               wrote |-> <<>>,
               gone |-> [f \in Streams |-> {}],
               span |-> NoSpan,
               read |-> [f \in Streams |-> <<>>],
               lapsed |-> [f \in Streams |-> {}],
               failed |-> {},
               idsUsed |-> [f \in Streams |-> 0],
               writersUsed |-> 0,
               bc |-> [f \in Streams |-> NoBroadcast]]

Init == InitForwarders /\ cmd = NoCommand

\* ------------------------------------------------- registration calls
Events == hist.nops + hist.nprod + hist.ncap["stdout"] + hist.ncap["stderr"]
UsableIds(f) == {IdSeq[i] : i \in {j \in DOMAIN IdSeq : j <= hist.idsUsed[f] + 1}}
UsableWriters == {WriterSeq[i] : i \in {j \in DOMAIN WriterSeq : j <= hist.writersUsed + 1}}
IndexIn(seq, x) == CHOOSE i \in DOMAIN seq : seq[i] = x
Max(x, y) == IF x >= y THEN x ELSE y


\* goroutines are interchangeable: a call is given to g2 only while g1 is busy
FreeCaller(t) == th[t].pc = "idle" /\ (t = "g2" => th["g1"].pc # "idle")

\* the writers that are in no entry of registry r any more once r[id] is x
Dropped(r, id, x) ==
    {r[i] : i \in RangeIds(r)} \ {([r EXCEPT ![id] = x])[i] : i \in RangeIds([r EXCEPT ![id] = x])}

\* observation of the returns of addWriter: errId is the id of the call that
\* returned an error, failIns tells that a call whose once body failed went on
\* to insert, againNil that a call made after an error return for the same id
\* returned nil
NoteErr(h, f, id) ==
    [h EXCEPT !.errRet[f] = @ + 1, !.errId[f] = id,
              !.idsUsed[f] = Max(@, IndexIn(IdSeq, id))]
NoteNil(h, r, id) ==
    [h EXCEPT !.failIns = @ \/ r.onceErr,
              !.againNil = @ \/ (r.again /\ h.errId[r.f] = id)]

\* AddStdoutWriter / AddStderrWriter: the call addWriter(&fwd, os.StdX, id, w).
\* std is read from the global when the call is made. id and w are values of the
\* caller that nothing reads before line 103 (or the error return): they are
\* drawn in the step that uses them.
StartAdd(t, f) ==
    /\ FreeCaller(t)
    /\ Events < MaxEvents
    /\ th' = [th EXCEPT ![t] = [pc |-> "once", f |-> f, std |-> StdArg(f, osStd),
                                onceErr |-> FALSE, again |-> hist.errId[f] # None]]
    /\ hist' = [hist EXCEPT !.nops = @ + 1,
                            !.span = IF hist.nops = 0 THEN @ ELSE Void,
                            !.failed = {}]
    /\ UNCHANGED <<osStd, out, writers, mapAlloc, mu, once, pipe, cl, realLog, recv,
                   panicked, cmd>>

\* dest.once.Do: the first caller enters the body, callers arriving while the
\* body runs wait, later callers skip it with their own onceErr still nil
OnceEnter(t) ==
    /\ th[t].pc = "once"
    /\ once[th[t].f] # "running"
    /\ IF OnceMayRun(once[th[t].f])
         THEN /\ once' = [once EXCEPT ![th[t].f] = "running"]
              /\ th' = [th EXCEPT ![t].pc = "body"]
         ELSE /\ once' = once
              /\ th' = [th EXCEPT ![t].pc = "lock", ![t].std = NoFile]
    /\ UNCHANGED <<osStd, out, writers, mapAlloc, mu, pipe, cl, realLog, recv,
                   panicked, hist, cmd>>

\* lines 80-93: dest.out = std; dest.writers = make(...); os.Pipe(); on error the
\* body returns with onceErr set and lines 97-99 return it to the caller (id is
\* the id of that call), otherwise the copy goroutine is started on the pipe's
\* read end
OnceBody(t, id) ==
    /\ th[t].pc = "body"
    /\ out' = [out EXCEPT ![th[t].f] = th[t].std]
    /\ writers' = [writers EXCEPT ![th[t].f] = EmptyMap]
    /\ mapAlloc' = [mapAlloc EXCEPT ![th[t].f] = TRUE]
    /\ \E ok \in BOOLEAN :
         IF ok
           THEN /\ id = IdSeq[1]
                /\ cl' = [cl EXCEPT ![th[t].f].pc = "read"]
                /\ th' = [th EXCEPT ![t].pc = "swap", ![t].std = NoFile]
                /\ once' = once
                /\ hist' = [hist EXCEPT !.pipes[th[t].f] = @ + 1,
                                        !.tasks[th[t].f] = @ + 1]
           ELSE /\ id \in UsableIds(th[t].f)
                /\ cl' = cl
                /\ once' = [once EXCEPT ![th[t].f] = "done"]
                /\ th' = [th EXCEPT ![t] = IF AfterOnce(TRUE) = "idle"
                                             THEN IdleThread
                                             ELSE [@ EXCEPT !.pc = "lock", !.onceErr = TRUE,
                                                            !.std = NoFile]]
                /\ hist' = LET h == [hist EXCEPT !.pipeFail[th[t].f] = @ + 1] IN
                             IF AfterOnce(TRUE) = "idle"
                               THEN NoteErr(h, th[t].f, id) ELSE h
    /\ UNCHANGED <<osStd, mu, pipe, realLog, recv, panicked, cmd>>

\* line 95: os.Stdout = wOut, the end of the once body; onceErr is nil
OnceSwap(t) ==
    /\ th[t].pc = "swap"
    /\ osStd' = [osStd EXCEPT ![SwapTarget(th[t].f)] = PipeW(th[t].f)]
    /\ once' = [once EXCEPT ![th[t].f] = "done"]
    /\ th' = [th EXCEPT ![t].pc = AfterOnce(FALSE)]
    /\ hist' = [hist EXCEPT !.swaps[th[t].f] = @ + 1]
    /\ UNCHANGED <<out, writers, mapAlloc, mu, pipe, cl, realLog, recv, panicked, cmd>>

\* lines 101-105: dest.mu.Lock(); dest.writers[id] = w; return nil (the deferred
\* Unlock runs). The critical section is one step: nothing else can enter it.
Insert(t, id, w) ==
    /\ th[t].pc = "lock"
    /\ id \in UsableIds(th[t].f)
    /\ w \in UsableWriters
    /\ LET f == th[t].f IN
         /\ CanLock(mu[f])
         /\ IF mapAlloc[f]
              THEN /\ writers' = [writers EXCEPT ![f] = MapInsert(@, id, w)]
                   /\ panicked' = panicked
              ELSE /\ writers' = writers      \* assignment to entry in nil map
                   /\ panicked' = TRUE
         /\ th' = [th EXCEPT ![t] = IdleThread]
         /\ hist' = [NoteNil(hist, th[t], id) EXCEPT
                        !.idsUsed[f] = Max(@, IndexIn(IdSeq, id)),
                        !.writersUsed = Max(@, IndexIn(WriterSeq, w)),
                        !.reg[f] = [i \in Ids |-> IF i = id THEN w ELSE @[i]],
                        !.churn[f] = @ \/ hist.nprod > 0,
                        !.span.from = IF hist.nops = 1 /\ @ = -1 THEN hist.nprod ELSE @,
                        !.lapsed[f] = @ \cup Dropped(hist.reg[f], id, w)]
    /\ UNCHANGED <<osStd, out, mapAlloc, mu, once, pipe, cl, realLog, recv, cmd>>

\* RemoveStdoutWriter / RemoveStderrWriter (lines 55-59 / 70-74): mu.Lock();
\* delete(fwd.writers, id); the deferred Unlock runs. The call touches nothing
\* before Lock, so the whole call is the critical section: one step, which
\* waits for the lock to be free.
Remove(f, id) ==
    /\ Events < MaxEvents
    /\ id \in UsableIds(f)
    /\ CanLock(mu[f])
    /\ writers' = [writers EXCEPT ![f] = MapDelete(@, id)]
    /\ hist' = [hist EXCEPT !.nops = @ + 1,
                            !.reg[f] = [i \in Ids |-> IF i = id THEN None ELSE @[i]],
                            !.churn[f] = @ \/ hist.nprod > 0,
                            !.gone[f] = @ \cup ({hist.reg[f][id]} \ {None}),
                            !.lapsed[f] = @ \cup Dropped(hist.reg[f], id, None),
                            !.failed = {},
                            !.span = IF hist.nops = 1 /\ hist.reg[f][id] # None /\ @.from >= 0
                                       THEN [@ EXCEPT !.to = hist.nprod] ELSE Void,
                            !.idsUsed[f] = Max(@, IndexIn(IdSeq, id))]
    /\ UNCHANGED <<osStd, out, mapAlloc, mu, once, pipe, cl, th, realLog, recv, panicked, cmd>>

\* ------------------------------------------------------ writes to files
\* (*os.File).Write(p) on h with the pipes holding pp: an original destination
\* takes the chunk, a pipe write end queues it for the pipe's reader and blocks
\* while the pipe is full; on a pipe whose read end is closed the write returns
\* at once with an error (EPIPE) and the chunk is dropped
\* mutant: the destination shows the latest chunk first
LogAppend_Front(log, c) == <<c>> \o log
\* what a destination has been written, in the order of the Write calls
LogAppend(log, c) == Append(log, c)
Broken(h) == h \notin RealFiles /\ cl[PipeOf(h)].pc = "closed"
FileCanWriteIn(pp, h) == h \in RealFiles \/ Broken(h) \/ Len(pp[PipeOf(h)]) < PipeCap
FileWriteIn(pp, h, c) ==
    IF h \in RealFiles
      THEN /\ realLog' = [realLog EXCEPT ![h] = LogAppend(@, c)]
           /\ pipe' = pp
      ELSE /\ pipe' = IF Broken(h) THEN pp ELSE [pp EXCEPT ![PipeOf(h)] = Append(@, c)]
           /\ realLog' = realLog
FileCanWrite(h) == FileCanWriteIn(pipe, h)
FileWrite(h, c) == FileWriteIn(pipe, h, c)

\* application code writing one chunk to os.Stdout / os.Stderr
ProducerWrite(s) ==
    /\ Events < MaxEvents
    /\ FileCanWrite(osStd[s])
    /\ FileWrite(osStd[s], [s |-> s, n |-> hist.nprod + 1])
    /\ hist' = [hist EXCEPT !.nprod = @ + 1, !.wrote = Append(@, s),
                            !.span = IF \E t \in Callers : th[t].pc # "idle" THEN Void ELSE @]
    /\ UNCHANGED <<osStd, out, writers, mapAlloc, mu, once, cl, th, recv, panicked, cmd>>

\* application code writing one chunk through a reference to os.Stdout /
\* os.Stderr that it captured beforehand
CapturedWrite(s) ==
    /\ Events < MaxEvents
    /\ hist.ncap["stdout"] + hist.ncap["stderr"] < MaxCaptured
    /\ FileCanWrite(CapturedStd(s))
    /\ FileWrite(CapturedStd(s), [s |-> Cap(s), n |-> hist.ncap[s] + 1])
    /\ hist' = [hist EXCEPT !.ncap[s] = @ + 1]
    /\ UNCHANGED <<osStd, out, writers, mapAlloc, mu, once, cl, th, recv, panicked, cmd>>

\* ------------------------------------------------------- copy goroutine
\* io.Copy: rOut.Read returns the next chunk of the pipe and dest.Write(chunk) is
\* called; forwarder.Write lines 29-32: n, err := f.out.Write(p), an error is
\* only logged
CopyRead(f) ==
    /\ cl[f].pc = "read"
    /\ pipe[f] # <<>>
    /\ out[f] # NoFile
    /\ LET c == Head(pipe[f])
           rest == [pipe EXCEPT ![f] = Tail(@)]
       IN  /\ FileCanWriteIn(rest, out[f])
           /\ FileWriteIn(rest, out[f], c)
           /\ \E failed \in (IF out[f] \in RealFiles THEN BOOLEAN ELSE {Broken(out[f])}) :
                cl' = [cl EXCEPT ![f] = [pc |-> "rlock", chunk |-> c,
                                         short |-> WriteShort(failed), todo |-> {},
                                         ret |-> NoReturn]]
           /\ hist' = [hist EXCEPT !.read[f] = Append(@, c)]
    /\ UNCHANGED <<osStd, out, writers, mapAlloc, mu, once, th, recv, panicked, cmd>>

\* forwarder.Write lines 35-37: f.mu.RLock(); range f.writers
CopyRLock(f) ==
    /\ cl[f].pc = "rlock"
    /\ CanRLock(mu[f])
    /\ mu' = [mu EXCEPT ![f].r = @ + 1]
    /\ cl' = [cl EXCEPT ![f].pc = "iter",
                          ![f].todo = BroadcastIds(writers[f], cl[f].short)]
    /\ UNCHANGED <<osStd, out, writers, mapAlloc, once, pipe, th, realLog, recv,
                   panicked, hist, cmd>>

\* forwarder.Write lines 37-41: one iteration of the range, in any key order;
\* w.Write(p) may return an error, which is only logged
CopyIter(f) ==
    /\ cl[f].pc = "iter"
    /\ \E id \in cl[f].todo, failed \in BOOLEAN :
         LET w == writers[f][id] IN
           /\ recv' = [recv EXCEPT ![w] = Append(@, cl[f].chunk)]
           /\ cl' = [cl EXCEPT ![f].todo = RestAfterWrite(@, id, failed)]
           /\ writers' = [writers EXCEPT ![f] = AfterConsumerWrite(@, id, failed)]
           /\ hist' = [hist EXCEPT !.bc[f].order = Append(@, w),
                                   !.bc[f].errs = IF failed THEN @ \cup {w} ELSE @,
                                   !.failed = IF failed /\ hist.nops = 1 THEN @ \cup {w} ELSE @]
    /\ UNCHANGED <<osStd, out, mapAlloc, mu, once, pipe, th, realLog, panicked, cmd>>

\* line 38 with a writer whose Write does not return (a blocked sink): the
\* copy goroutine stays in w.Write(p), inside the range, with the read lock held
CopyStuck(f) ==
    /\ cl[f].pc = "iter"
    /\ \E id \in cl[f].todo :
         LET w == writers[f][id] IN
           /\ recv' = [recv EXCEPT ![w] = Append(@, cl[f].chunk)]
           /\ cl' = [cl EXCEPT ![f].pc = "stuck"]
           /\ hist' = [hist EXCEPT !.bc[f].order = Append(@, w)]
    /\ UNCHANGED <<osStd, out, writers, mapAlloc, mu, once, pipe, th, realLog, panicked, cmd>>

\* line 38 with a writer whose Write(p) calls Remove*Writer with its own id on
\* the forwarder that is writing it (lines 55-57 / 70-72, run by the copy
\* goroutine inside the range): the call is at mu.Lock() while the same
\* goroutine holds the read lock of line 35 ("nested"); once Lock returns the
\* entry is deleted, the deferred Unlock runs and the range goes on
CopyNested(f) ==
    /\ cl[f].pc \in {"iter", "nested"}
    /\ IF cl[f].pc = "iter"
         THEN \E id \in cl[f].todo :
                /\ recv' = [recv EXCEPT ![writers[f][id]] = Append(@, cl[f].chunk)]
                /\ cl' = [cl EXCEPT ![f].pc = "nested"]
                /\ hist' = [hist EXCEPT !.bc[f].order = Append(@, writers[f][id])]
                /\ writers' = writers
         ELSE /\ CanLock(mu[f])
              /\ \E id \in cl[f].todo :
                   /\ writers[f][id] = hist.bc[f].order[Len(hist.bc[f].order)]
                   /\ writers' = [writers EXCEPT ![f] = MapDelete(@, id)]
                   /\ cl' = [cl EXCEPT ![f].pc = "iter", ![f].todo = @ \ {id}]
                   /\ hist' = [hist EXCEPT
                                  !.reg[f] = [i \in Ids |-> IF i = id THEN None ELSE @[i]],
                                  !.gone[f] = @ \cup ({hist.reg[f][id]} \ {None})]
              /\ recv' = recv
    /\ UNCHANGED <<osStd, out, mapAlloc, mu, once, pipe, th, realLog, panicked, cmd>>

\* forwarder.Write lines 36, 43: deferred RUnlock, return n, nil; io.Copy then
\* reads again, or stops with the error of Write or with ErrShortWrite
CopyRUnlock(f) ==
    /\ cl[f].pc = "iter"
    /\ cl[f].todo = {}
    /\ mu' = [mu EXCEPT ![f].r = @ - 1]
    /\ LET ret == WriteReturn(cl[f].short, hist.bc[f].errs # {}) IN
         cl' = [cl EXCEPT ![f] = [pc |-> IF ~ret.err /\ CopyGoesOn(ret.short)
                                           THEN "read" ELSE "exited",
                                  chunk |-> NoChunk, short |-> FALSE, todo |-> {},
                                  ret |-> ret]]
    /\ hist' = [hist EXCEPT !.bc[f] = NoBroadcast]
    /\ UNCHANGED <<osStd, out, writers, mapAlloc, once, pipe, th, realLog, recv, panicked, cmd>>

\* rOut is referenced by the copy goroutine alone (lines 83, 89-93): once
\* io.Copy has returned the *os.File is unreachable and the runtime may, at a
\* time of its choosing or never, run its finalizer, which closes the read end
\* and discards what the pipe holds
Finalize(f) ==
    /\ cl[f].pc = "exited"
    /\ cl' = [cl EXCEPT ![f].pc = "closed"]
    /\ pipe' = [pipe EXCEPT ![f] = <<>>]
    /\ UNCHANGED <<osStd, out, writers, mapAlloc, mu, once, th, realLog, recv,
                   panicked, hist, cmd>>

\* ------------------------------------------------------------------ Next
Next ==
    \/ \E t \in Callers, f \in Streams : StartAdd(t, f)
    \/ \E f \in Streams, id \in Ids : Remove(f, id)
    \/ \E t \in Callers : OnceEnter(t)
    \/ \E t \in Callers, id \in Ids : OnceBody(t, id)
    \/ \E t \in Callers : OnceSwap(t)
    \/ \E t \in Callers, id \in Ids, w \in Writers : Insert(t, id, w)
    \/ \E s \in Streams : ProducerWrite(s)
    \/ \E f \in Streams : CopyRead(f)
    \/ \E f \in Streams : CopyRLock(f)
    \/ \E f \in Streams : CopyIter(f)
    \/ \E f \in Streams : CopyStuck(f)
    \/ \E f \in Streams : CopyRUnlock(f)
    \/ \E f \in Streams : Finalize(f)

Spec == Init /\ [][Next]_vars

\* the program together with code that writes through captured references
NextCaptured ==
    \/ Next
    \/ \E s \in Streams : CapturedWrite(s)

SpecCaptured == Init /\ [][NextCaptured]_vars

\* the program with registered writers that unregister themselves from
\* inside their Write
NextNested ==
    \/ Next
    \/ \E f \in Streams : CopyNested(f)

SpecNested == Init /\ [][NextNested]_vars

\* ============================================= e2e/internal/command
\* Command.Execute (command.go). A command is built by New with the option
\* WithStateTransition(states...); Execute parses the flags, checks the
\* inventory file against the declared initial states, runs validate and the
\* action and writes the inventory file, while a goroutine waits for SIGHUP /
\* SIGINT / SIGTERM to cancel the context. The inventory package is outside the
\* sources: an inventory file is a State on disk or is missing, Read and Write
\* may fail.
InvStates == {"null", "s1", "s2"}
Null == "null"
NoInventoryFile == "missing"
NotWritten == "no"
Damaged == "damaged"

forwarderVars == <<osStd, out, writers, mapAlloc, mu, once, pipe, cl, th, realLog,
                   recv, panicked, hist>>

\* lines 49-60: the last state given is the final state, those before it are
\* the initial states (fewer than two states: New ends the process, line 101)
WithStateTransition(states) ==
    [fromStates |-> SubSeq(states, 1, Len(states) - 1), toState |-> states[Len(states)]]

\* the lists of 2..MaxStates states
StateLists == UNION {[1..n -> InvStates] : n \in 2..MaxStates}

\* lines 255-257: c.fromStates[0] != inventory.Null
requireInventory(fromStates) == fromStates[1] # Null

\* the command line: flags that fSet.Parse rejects, positional arguments left
\* after the flags, -h / --help given
ArgSets == [parseErr : BOOLEAN, positional : BOOLEAN, help : BOOLEAN]
NoArgs == [parseErr |-> FALSE, positional |-> FALSE, help |-> FALSE]

\* mutant: the error that the Usage closure assigns is what -h returns
parseFlags_HelpIsError(args) ==
    IF args.parseErr \/ args.positional \/ args.help
      THEN [showedUsage |-> TRUE, err |-> TRUE]
      ELSE [showedUsage |-> FALSE, err |-> FALSE]
\* lines 157-188: a parse error or remaining positional arguments return
\* (true, "usage error") at line 175; with Help set, Usage() is called and line
\* 184 returns (true, nil), which overwrites what the closure assigned to the
\* named results; otherwise line 187 returns them as they are, (false, nil)
parseFlags(args) ==
    IF args.parseErr \/ args.positional THEN [showedUsage |-> TRUE, err |-> TRUE]
    ELSE IF args.help THEN [showedUsage |-> TRUE, err |-> FALSE]
    ELSE [showedUsage |-> FALSE, err |-> FALSE]

\* mutant: the inventory file is written whatever the final state
WritesInventory_Always(toState) == TRUE
\* line 244: the inventory file is written unless the final state is Null
WritesInventory(toState) == toState # Null

\* lines 217-223: the state read is one of c.fromStates
StateFound(fromStates, state) == \E i \in DOMAIN fromStates : fromStates[i] = state

\* the state machine position recorded by the inventory file: Null while there
\* is no file
CurrentState(file) == IF file = NoInventoryFile THEN Null ELSE file

\* a command ready to be executed: New(action, WithStateTransition(states...)
\* [, WithValidateFunc(validate)]), with the inventory file as it is on disk
InitCommand ==
    /\ InitForwarders
    /\ \E states \in StateLists, file \in InvStates \cup {NoInventoryFile},
          hasValidate \in BOOLEAN :
         cmd = [pc |-> "start",
                fromStates |-> WithStateTransition(states).fromStates,
                toState |-> WithStateTransition(states).toState,
                hasValidate |-> hasValidate,
                file0 |-> file, file |-> file,
                read |-> FALSE, ranValidate |-> FALSE, ranAction |-> FALSE,
                written |-> NotWritten, help |-> FALSE, exit |-> -1,
                args |-> NoArgs, cause |-> "running",
                notify |-> FALSE, chBuf |-> 0, chClosed |-> FALSE,
                handler |-> "none", cancelled |-> FALSE, cleanup |-> "no",
                killed |-> FALSE, nsig |-> 0, relayed |-> 0, closes |-> 0,
                sentClosed |-> FALSE]

\* a return statement of Execute: the exit code, and the step that ended the
\* run ("done": line 252)
Exit(c, code, cause) == [c EXCEPT !.pc = "exit", !.exit = code, !.cause = cause]

\* mutant: the goroutine goes on receiving from a closed channel
HandlerAfter_IgnoreClosed(isSignal, ok) == IF isSignal THEN "done" ELSE "recv"
\* lines 267-279: after a receive the goroutine returns when the value is one
\* of the three signals (after cancel()) or when the channel was closed, and
\* receives again otherwise
HandlerAfter(isSignal, ok) == IF isSignal \/ ~ok THEN "done" ELSE "recv"

\* lines 192-193 and 259-281: ctx, cancel := context.WithCancel(ctx);
\* installSignalHandler(cancel) makes the channel (capacity 1), registers it
\* with signal.Notify and starts the goroutine; the function it returns is
\* deferred
CmdInstallSignalHandler ==
    /\ cmd.pc = "start"
    /\ cmd' = [cmd EXCEPT !.pc = "parse", !.notify = TRUE, !.handler = "recv"]
    /\ UNCHANGED forwarderVars

\* one of the three signals is sent to the process while Execute runs. While
\* the channel is registered, package signal relays it with a send that does
\* not block: it is dropped when the buffer is full (a send on a closed
\* channel would panic). After signal.Stop the signal has its default action
\* again, which ends the process.
SignalArrives ==
    /\ cmd.pc # "start" /\ cmd.cleanup # "returned" /\ ~cmd.killed
    /\ cmd.nsig < MaxSignals
    /\ cmd' = IF cmd.notify
                THEN [cmd EXCEPT !.nsig = @ + 1,
                                 !.chBuf = IF cmd.chClosed THEN @ ELSE 1,
                                 !.relayed = IF cmd.chClosed \/ cmd.chBuf = 1 THEN @ ELSE @ + 1,
                                 !.sentClosed = @ \/ cmd.chClosed]
                ELSE [cmd EXCEPT !.nsig = @ + 1, !.killed = TRUE]
    /\ UNCHANGED forwarderVars

\* lines 265-280, one receive of the goroutine: v, ok := <-ch takes the
\* buffered signal, or the zero value with ok false once the channel is closed
\* and empty; on a signal cancel() is called
HandlerReceive ==
    /\ cmd.handler = "recv" /\ ~cmd.killed
    /\ cmd.chBuf > 0 \/ cmd.chClosed
    /\ cmd' = [cmd EXCEPT !.chBuf = 0,
                          !.cancelled = @ \/ cmd.chBuf > 0,
                          !.handler = HandlerAfter(cmd.chBuf > 0, cmd.chBuf > 0)]
    /\ UNCHANGED forwarderVars

\* lines 282-286, the deferred function, run when Execute returns:
\* signal.Stop(ch)
CmdStop ==
    /\ cmd.pc = "exit" /\ cmd.cleanup = "no" /\ ~cmd.killed
    /\ cmd' = [cmd EXCEPT !.cleanup = "stopped", !.notify = FALSE]
    /\ UNCHANGED forwarderVars

\* close(ch)
CmdClose ==
    /\ cmd.cleanup = "stopped" /\ ~cmd.killed
    /\ cmd' = [cmd EXCEPT !.cleanup = "closed", !.chClosed = TRUE, !.closes = @ + 1]
    /\ UNCHANGED forwarderVars

\* wg.Wait() returns once the goroutine has run its deferred wg.Done()
CmdWait ==
    /\ cmd.cleanup = "closed" /\ ~cmd.killed
    /\ cmd.handler = "done"
    /\ cmd' = [cmd EXCEPT !.cleanup = "returned"]
    /\ UNCHANGED forwarderVars

\* lines 195-206: showedUsage ends Execute with 2 when parseFlags returned an
\* error and with 0 when it did not; an error without showedUsage ends it
\* with 1
CmdParseFlags ==
    /\ cmd.pc = "parse" /\ ~cmd.killed
    /\ \E args \in ArgSets :
         LET r == parseFlags(args)
             c == [cmd EXCEPT !.args = args, !.help = r.showedUsage /\ ~r.err]
         IN  cmd' = IF r.showedUsage
                      THEN (IF r.err THEN Exit(c, 2, "usage") ELSE Exit(c, 0, "help"))
                    ELSE IF r.err THEN Exit(c, 1, "flags")
                    ELSE [c EXCEPT !.pc = "inventory"]
    /\ UNCHANGED forwarderVars

\* lines 208-228: when the inventory is required it is read (an error, which a
\* missing file gives, ends with 1) and its state must be one of c.fromStates
\* (otherwise 1)
CmdCheckInventory ==
    /\ cmd.pc = "inventory" /\ ~cmd.killed
    /\ IF requireInventory(cmd.fromStates)
         THEN \E readErr \in (IF cmd.file = NoInventoryFile THEN {TRUE} ELSE BOOLEAN) :
                cmd' = IF readErr THEN Exit(cmd, 1, "read")
                       ELSE IF ~StateFound(cmd.fromStates, cmd.file)
                         THEN Exit([cmd EXCEPT !.read = TRUE], 1, "state")
                       ELSE [cmd EXCEPT !.read = TRUE, !.pc = "validate"]
         ELSE cmd' = [cmd EXCEPT !.pc = "validate"]
    /\ UNCHANGED forwarderVars

\* lines 230-235: validate, when there is one, is run; its error ends with 1
CmdValidate ==
    /\ cmd.pc = "validate" /\ ~cmd.killed
    /\ IF cmd.hasValidate
         THEN \E err \in BOOLEAN :
                cmd' = IF err THEN Exit([cmd EXCEPT !.ranValidate = TRUE], 1, "validate")
                       ELSE [cmd EXCEPT !.ranValidate = TRUE, !.pc = "action"]
         ELSE cmd' = [cmd EXCEPT !.pc = "action"]
    /\ UNCHANGED forwarderVars

\* lines 237-240: the action is run; its error ends with 1
CmdAction ==
    /\ cmd.pc = "action" /\ ~cmd.killed
    /\ \E err \in BOOLEAN :
         cmd' = IF err THEN Exit([cmd EXCEPT !.ranAction = TRUE], 1, "action")
                ELSE [cmd EXCEPT !.ranAction = TRUE, !.pc = "write"]
    /\ UNCHANGED forwarderVars

\* lines 242-252: c.Inventory.State = c.toState; the inventory file is written
\* unless that state is Null; an error of Write ends with 1 (the file is then
\* as it was or damaged)
CmdWrite ==
    /\ cmd.pc = "write" /\ ~cmd.killed
    /\ IF WritesInventory(cmd.toState)
         THEN \E err \in BOOLEAN, left \in {cmd.file, Damaged} :
                cmd' = IF err THEN Exit([cmd EXCEPT !.file = left], 1, "write")
                       ELSE Exit([cmd EXCEPT !.file = cmd.toState,
                                             !.written = cmd.toState], 0, "done")
         ELSE cmd' = Exit(cmd, 0, "done")
    /\ UNCHANGED forwarderVars

NextCommand ==
    \/ CmdInstallSignalHandler
    \/ SignalArrives
    \/ HandlerReceive
    \/ CmdStop
    \/ CmdClose
    \/ CmdWait
    \/ CmdParseFlags
    \/ CmdCheckInventory
    \/ CmdValidate
    \/ CmdAction
    \/ CmdWrite

SpecCommand == InitCommand /\ [][NextCommand]_vars

\* the Go scheduler runs every goroutine that can run: the signal goroutine
\* receives when it can, the deferred function goes through its three calls
SpecCommandFair ==
    /\ SpecCommand
    /\ WF_vars(HandlerReceive)
    /\ WF_vars(CmdStop) /\ WF_vars(CmdClose) /\ WF_vars(CmdWait)

\* ================================================================ claims
Quiescent ==
    \A f \in Streams : pipe[f] = <<>> /\ cl[f].pc \in {"none", "read", "exited"}
BroadcastDone(f) == cl[f].pc = "iter" /\ cl[f].todo = {}
WrittenIn(f) == {hist.bc[f].order[i] : i \in DOMAIN hist.bc[f].order}
Range(seq) == {seq[i] : i \in DOMAIN seq}
Occurrences(seq, x) == Cardinality({i \in DOMAIN seq : seq[i] = x})
\* the chunks the application wrote to stream s, in write order
RECURSIVE WrittenFrom(_, _)
WrittenFrom(s, n) ==
    IF n > Len(hist.wrote) THEN <<>>
    ELSE (IF hist.wrote[n] = s THEN <<[s |-> s, n |-> n]>> ELSE <<>>)
           \o WrittenFrom(s, n + 1)
WrittenTo(s) == WrittenFrom(s, 1)
RECURSIVE Part(_, _)
Part(seq, s) ==
    IF seq = <<>> THEN <<>>
    ELSE (IF Head(seq).s = s THEN <<Head(seq)>> ELSE <<>>) \o Part(Tail(seq), s)
\* the writers with exactly one entry on stream s, registered before the first
\* application write and registered ever since (churn: the registry of s was
\* changed after the first application write)
Steady(s) ==
    IF hist.churn[s] THEN {}
    ELSE {w \in Writers : Cardinality({id \in Ids : hist.reg[s][id] = w}) = 1}

\* C1: for each forwarder the once body runs at most once, however many
\* Add*Writer calls are made and however they interleave: at most one pipe is
\* created, the global handle is assigned at most once by that forwarder and at
\* most one copy goroutine is started.
C1_InterceptOnce ==
    \A f \in Streams :
        /\ hist.pipes[f] + hist.pipeFail[f] <= 1
        /\ hist.pipes[f] <= 1
        /\ hist.swaps[f] <= 1
        /\ hist.tasks[f] <= 1
\* two calls raced through the once gate of the same forwarder, one pipe exists
C1_Witness ==
    /\ th["g1"].pc = "lock" /\ th["g2"].pc = "lock"
    /\ th["g1"].f = th["g2"].f
    /\ hist.swaps[th["g1"].f] = 1 /\ hist.tasks[th["g1"].f] = 1

\* C2: with the application as single producer, a writer registered on an
\* intercepted stream s (before the first write, one entry, never removed) has
\* been passed, once everything written has been forwarded, exactly the chunks
\* written to s, in write order, none lost and none twice.
C2_ExactDelivery ==
    Quiescent =>
        \A s \in Streams : \A w \in Steady(s) :
            hist.tasks[s] > 0 => Part(recv[w], s) = WrittenTo(s)

\* C3: once AddStderrWriter has run the interception, os.Stderr is the write
\* end of the stderr forwarder's pipe.
C3_StderrRedirected ==
    hist.swaps["stderr"] = 1 => osStd["stderr"] = PipeW("stderr")

\* C4: the forwarders are independent: a forwarder only ever passes its own
\* stream's chunks to its writers, and a writer registered on an intercepted
\* stream s (before the first write, never removed) has been passed every chunk
\* written to s once everything has been forwarded, whatever was registered on
\* the other stream.
C4_Independent ==
    /\ \A f \in Streams :
          (cl[f].pc = "iter" /\ hist.bc[f].order # <<>>) => cl[f].chunk.s = f
    /\ Quiescent =>
          \A s \in Streams : \A w \in Steady(s) :
              hist.tasks[s] > 0 => Range(WrittenTo(s)) \subseteq Range(recv[w])

\* C5: an intercepting forwarder's out is the original destination of its own
\* stream, and once everything has been forwarded every chunk the application
\* wrote to a stream was passed exactly once to that stream's original
\* destination and never to the other one.
C5_OutIsReal ==
    /\ \A f \in Streams : hist.tasks[f] > 0 => out[f] = Real(f)
    /\ Quiescent =>
          \A s \in Streams : \A i \in DOMAIN WrittenTo(s) :
              /\ Occurrences(realLog[Real(s)], WrittenTo(s)[i]) = 1
              /\ \A h \in RealFiles \ {Real(s)} : Occurrences(realLog[h], WrittenTo(s)[i]) = 0

\* C6: a broadcast is written to exactly the writers that are registered by the
\* calls made so far (last Register per id, minus the Unregistered ids): with A
\* and B registered under different ids both are written; once A's id has been
\* unregistered B is written and A is not.
C6_BroadcastFollowsRegistry ==
    \A f \in Streams :
        BroadcastDone(f) =>
            /\ \A id \in Ids : hist.reg[f][id] # None => hist.reg[f][id] \in WrittenIn(f)
            /\ \A w \in WrittenIn(f) : \E id \in Ids : hist.reg[f][id] = w
\* a broadcast went to w2 alone after w1 had been unregistered
C6_Witness ==
    \E f \in Streams :
        /\ BroadcastDone(f)
        /\ "w1" \in hist.gone[f]
        /\ hist.reg[f] = [id \in Ids |-> IF id = "b" THEN "w2" ELSE None]
        /\ WrittenIn(f) = {"w2"}
        /\ recv["w2"] = <<cl[f].chunk>> /\ recv["w1"] = <<>>

C8_FailureIsolated ==
    \A f \in Streams :
        BroadcastDone(f) =>
            /\ \A id \in RangeIds(writers[f]) :
                  /\ writers[f][id] \in WrittenIn(f)
                  /\ cl[f].chunk \in Range(recv[writers[f][id]])
            /\ Len(hist.bc[f].order) = Cardinality(RangeIds(writers[f]))
            /\ out[f] \in RealFiles => cl[f].chunk \in Range(realLog[out[f]])
\* the first writer of the iteration failed and the second was written all the same
C8_Witness ==
    \E f \in Streams :
        /\ BroadcastDone(f)
        /\ Len(hist.bc[f].order) = 2
        /\ hist.bc[f].order[1] \in hist.bc[f].errs
        /\ hist.bc[f].order[2] \notin hist.bc[f].errs
        /\ hist.bc[f].order[1] # hist.bc[f].order[2]

\* C9: Remove*Writer of an id that has no entry leaves the registry, the global
\* handles, the forwarder and the copy goroutine as they are and does not
\* panic, also on a forwarder whose map was never made.
C9_RemoveAbsentIsNoop ==
    [][\A f \in Streams, id \in Ids :
          (Remove(f, id) /\ writers[f][id] = None) =>
              UNCHANGED <<osStd, out, writers, mapAlloc, mu, once, pipe, cl, th,
                          realLog, recv, panicked>>]_vars
\* a Remove*Writer call was made on the zero-valued forwarders
C9_Witness ==
    /\ hist.nops = 1
    /\ \A t \in Callers : th[t].pc = "idle"
    /\ \A f \in Streams : once[f] = "fresh" /\ ~mapAlloc[f]
    /\ \E f \in Streams : hist.idsUsed[f] = 1
    /\ ~panicked

\* C10: when os.Pipe fails in the once body, that call returns the error, no
\* global handle is assigned, no copy goroutine is started and the call inserts
\* nothing.
C10_PipeFailureReturned ==
    \A f \in Streams :
        hist.pipeFail[f] > 0 =>
            /\ hist.errRet[f] = hist.pipeFail[f]
            /\ hist.swaps[f] = 0 /\ hist.tasks[f] = 0 /\ cl[f].pc = "none"
            /\ \A s \in Streams : osStd[s] # PipeW(f)
            /\ ~hist.failIns
C10_Witness ==
    \E f \in Streams :
        /\ hist.pipeFail[f] = 1 /\ hist.errRet[f] = 1
        /\ hist.nops = 1 /\ th["g1"].pc = "idle"
        /\ writers[f] = EmptyMap /\ osStd = [s \in Streams |-> Real(s)]

\* C11: a Register call returns nil only while its forwarder is intercepting:
\* whenever a call has gone on past the once gate to register its writer, or
\* has registered it, the pipe exists and the copy goroutine was started.
C11_NilOnlyIfActive ==
    \A f \in Streams :
        \/ hist.tasks[f] > 0
        \/ /\ hist.reg[f] = EmptyMap
           /\ \A t \in Callers : ~(th[t].pc = "lock" /\ th[t].f = f)

\* C12: after a Register whose pipe allocation failed the forwarder is
\* uninitialized again: a call that passes the once gate of a forwarder that
\* is not intercepting enters the interception body.
C12_FailedInterceptionRetried ==
    [][\A t \in Callers :
          (OnceEnter(t) /\ hist.tasks[th[t].f] = 0) => th'[t].pc = "body"]_vars

\* C13: the copy goroutine, once started, never ends on a failed forward: it
\* is reading the pipe or forwarding a chunk (the pipe is never closed, so
\* there is no end-of-stream and no read error).
C13_CopyLoopGoesOn ==
    \A f \in Streams : cl[f].pc # "exited"

\* C14: forwarder.Write returns a nil error and the count of its write to
\* f.out, whatever the number of registered writers and whichever writes
\* failed.
C14_ReturnsCountAndNil ==
    [][\A f \in Streams :
          CopyRUnlock(f) => cl'[f].ret = [short |-> cl[f].short, err |-> FALSE]]_vars
\* Write has returned a short count and a nil error after the write to f.out
\* failed and two registered writers were written the chunk
C14_Witness ==
    \E f \in Streams :
        /\ cl[f].pc = "exited"
        /\ cl[f].ret = [short |-> TRUE, err |-> FALSE]
        /\ Cardinality(RangeIds(writers[f])) = 2
        /\ writers[f]["a"] # writers[f]["b"]
        /\ \A id \in Ids : Len(recv[writers[f][id]]) = 1

\* C15: in a broadcast the chunk is written to f.out before any registered
\* writer is written, and when the write to f.out failed every registered
\* writer is still written the chunk in that broadcast. (The order is checked
\* where f.out is an original destination, whose Write calls realLog records.)
C15_OutFirstThenAll ==
    \A f \in Streams :
        /\ (cl[f].pc \in {"rlock", "iter"} /\ out[f] \in RealFiles) =>
              cl[f].chunk \in Range(realLog[out[f]])
        /\ (cl[f].pc \in {"read", "none", "exited"}) => hist.bc[f].order = <<>>
        /\ (BroadcastDone(f) /\ cl[f].short) =>
              \A id \in RangeIds(writers[f]) :
                  /\ writers[f][id] \in WrittenIn(f)
                  /\ cl[f].chunk \in Range(recv[writers[f][id]])
\* the write to the original destination failed and both registered writers
\* were written the chunk
C15_Witness ==
    \E f \in Streams :
        /\ BroadcastDone(f) /\ cl[f].short
        /\ out[f] \in RealFiles
        /\ WrittenIn(f) = Writers
        /\ \A w \in Writers : recv[w] = <<cl[f].chunk>>

\* a write to os.Stdout / os.Stderr that cannot complete now: the global is a
\* pipe write end and the pipe is full
WriteBlocked(s) == osStd[s] \notin RealFiles /\ ~FileCanWrite(osStd[s])
Feeds(s) == PipeOf(osStd[s])

\* C16: failed writes never leave a producer blocked: whenever a write to a
\* redirected stream has to wait for room in the pipe, the copy goroutine
\* that drains that pipe has not ended.
C16_BlockedWriterHasReader ==
    \A s \in Streams : WriteBlocked(s) => cl[Feeds(s)].pc # "exited"

\* C17: a consumer whose Write does not return never leaves a producer
\* blocked: whenever a write to a redirected stream has to wait for room in
\* the pipe, the copy goroutine that drains that pipe is not held in a
\* consumer's Write.
C17_BlockedWriterNotBehindConsumer ==
    \A s \in Streams : WriteBlocked(s) => cl[Feeds(s)].pc # "stuck"

\* C18: the registry (the field dest.writers and the map it holds) is only
\* accessed under the forwarder's lock: no Remove*Writer, which reads the
\* field and deletes from the map under mu.Lock, can run while a call is in
\* the once body, where lines 80-81 assign the field without the lock.
C18_RegistryUnderLock ==
    \A t \in Callers :
        th[t].pc = "body" => ~ENABLED (\E id \in Ids : Remove(th[t].f, id))

\* the calls made so far on stream s are one Register, of w, and after it one
\* Unregister of its id, no write was made while the Register was running,
\* and s is redirected into its forwarder's pipe
RegisteredThenRemoved(s, w) ==
    /\ hist.nops = 2 /\ \A t \in Callers : th[t].pc = "idle"
    /\ hist.span.to >= 0
    /\ hist.gone[s] = {w} /\ hist.reg = [f \in Streams |-> EmptyMap]
    /\ hist.tasks[s] = 1 /\ osStd[s] = PipeW(s)
\* the chunks written to s after the Register of w had returned and before
\* its Unregister was called
RECURSIVE WrittenBetween(_, _)
WrittenBetween(s, n) ==
    IF n > hist.span.to THEN <<>>
    ELSE (IF hist.wrote[n] = s THEN <<[s |-> s, n |-> n]>> ELSE <<>>)
           \o WrittenBetween(s, n + 1)
IsPrefix(p, q) == Len(p) <= Len(q) /\ \A i \in DOMAIN p : p[i] = q[i]

\* C19 as stated: Register(id, w); write X; Unregister(id); write Y: once the
\* copy goroutine has forwarded everything, w has been passed exactly X.
C19_ObservesExactlyX ==
    \A s \in Streams, w \in Writers :
        (RegisteredThenRemoved(s, w) /\ Quiescent /\ cl[s].pc = "read") =>
            recv[w] = WrittenBetween(s, hist.span.from + 1)
\* C19 amended: w is passed a prefix of X, in write order (what the copy
\* goroutine had broadcast when Unregister took the lock), and nothing of Y.
C19_ObservesPrefixOfX ==
    \A s \in Streams, w \in Writers :
        RegisteredThenRemoved(s, w) =>
            IsPrefix(recv[w], WrittenBetween(s, hist.span.from + 1))
\* X was written before and Y after the Unregister, both were forwarded, and
\* w was passed X alone
C19_Witness ==
    \E s \in Streams, w \in Writers :
        /\ RegisteredThenRemoved(s, w) /\ Quiescent /\ cl[s].pc = "read"
        /\ hist.span = [from |-> 0, to |-> 1]
        /\ hist.wrote = <<s, s>>
        /\ recv[w] = <<[s |-> s, n |-> 1]>>
        /\ Len(realLog[Real(s)]) = 2

\* the writers that have been registered on forwarder f and never on the other
EverOn(f) == {hist.reg[f][id] : id \in RangeIds(hist.reg[f])} \cup hist.lapsed[f]
OnlyOn(f) == EverOn(f) \ UNION {EverOn(g) : g \in Streams \ {f}}
Filter(seq, S) == SelectSeq(seq, LAMBDA c : c \in S)
\* r lists elements of ref in the order of ref
SameOrder(r, ref) ==
    /\ \A i \in DOMAIN r : r[i] \in Range(ref)
    /\ \A i, j \in DOMAIN r :
          i < j => IndexIn(ref, r[i]) <= IndexIn(ref, r[j])
\* r leaves out nothing of ref between two elements it has
Contiguous(r, ref) ==
    \A k \in DOMAIN ref :
        (\E i, j \in DOMAIN r : /\ r[i] \in Range(ref) /\ r[j] \in Range(ref)
                                /\ IndexIn(ref, r[i]) < k /\ k < IndexIn(ref, r[j]))
            => ref[k] \in Range(r)

Intercepting(f) == once[f] = "done" /\ hist.tasks[f] = 1
\* a step of an Add*Writer or Remove*Writer call on forwarder f
CallStepOn(f) ==
    /\ th' # th \/ hist'.nops # hist.nops
    /\ \/ \E t \in Callers : StartAdd(t, f)
       \/ \E t \in Callers : th[t].f = f /\ OnceEnter(t)
       \/ \E t \in Callers, id \in Ids, w \in Writers : th[t].f = f /\ Insert(t, id, w)
       \/ \E id \in Ids : Remove(f, id)

\* C21: an Intercepting forwarder stays Intercepting (the once stays consumed,
\* the map stays made, the captured handle stays the same), and every step of a
\* later Add*Writer / Remove*Writer call on it leaves out, the pipes, the
\* process globals, the copy goroutines and what was delivered unchanged: only
\* the registry mapping may change.
C21_LaterCallsChangeRegistryOnly ==
    [][\A f \in Streams :
         Intercepting(f) =>
           /\ once'[f] = "done" /\ hist'.tasks[f] = 1 /\ mapAlloc'[f]
           /\ out'[f] = out[f]
           /\ hist'.pipes[f] = hist.pipes[f] /\ hist'.swaps[f] = hist.swaps[f]
           /\ (CallStepOn(f) =>
                 /\ osStd' = osStd /\ out' = out /\ pipe' = pipe /\ cl' = cl
                 /\ once' = once /\ mapAlloc' = mapAlloc
                 /\ realLog' = realLog /\ recv' = recv)]_vars
\* an Intercepting forwarder that has served two later registrations and one
\* removal: its registry changed, its copy goroutine still reads its pipe
C21_Witness ==
    \E f \in Streams :
        /\ Intercepting(f) /\ cl[f].pc = "read" /\ out[f] = Real(f)
        /\ hist.gone[f] = {"w1"} /\ writers[f]["a"] = None /\ writers[f]["b"] = "w2"
        /\ \A t \in Callers : th[t].pc = "idle"

\* C22: forwarder.Write never removes or disables a consumer whose Write
\* failed: no step of a copy goroutine changes a registry, and the broadcast
\* of every chunk ends having written every registered writer, those that
\* failed on an earlier chunk included.
C22_FailingConsumerStays ==
    [][/\ cl' # cl => writers' = writers
       /\ \A f \in Streams :
            CopyRUnlock(f) =>
              \A id \in RangeIds(writers[f]) : writers[f][id] \in WrittenIn(f)]_vars
\* a writer whose Write returned an error on the first chunk is still
\* registered and has been written the second chunk
C22_Witness ==
    \E f \in Streams, id \in Ids :
        /\ BroadcastDone(f) /\ cl[f].chunk.n = 2
        /\ writers[f][id] \in hist.failed \ hist.bc[f].errs
        /\ writers[f][id] \in WrittenIn(f)
        /\ Len(recv[writers[f][id]]) = 2

\* the chunks written through a captured reference to stream s, in write order
CapturedTo(s) == [k \in 1..hist.ncap[s] |-> [s |-> Cap(s), n |-> k]]
IsCaptured(c) == c.s \in {Cap(s) : s \in Streams}

\* C23: what is written through a reference to the real stream captured before
\* anything was intercepted reaches the original destination of that stream,
\* once and in write order, and nothing else: no such chunk is in a pipe, in
\* the hands of a copy goroutine, in the other destination or delivered to a
\* registered writer, whether the stream is intercepted or not.
C23_CapturedBypasses ==
    /\ \A s \in Streams :
         /\ Part(realLog[Real(s)], Cap(s)) = CapturedTo(s)
         /\ \A t \in Streams \ {s} : Part(realLog[Real(t)], Cap(s)) = <<>>
    /\ \A f \in Streams :
         /\ \A i \in DOMAIN pipe[f] : ~IsCaptured(pipe[f][i])
         /\ \A i \in DOMAIN hist.read[f] : ~IsCaptured(hist.read[f][i])
         /\ ~IsCaptured(cl[f].chunk)
    /\ \A w \in Writers : \A i \in DOMAIN recv[w] : ~IsCaptured(recv[w][i])
\* stdout is intercepted with a writer registered: a chunk written to
\* os.Stdout was forwarded to the writer and to the original stdout, a chunk
\* written afterwards through the captured reference is in the original
\* stdout only
C23_Witness ==
    /\ osStd["stdout"] = PipeW("stdout") /\ Quiescent
    /\ hist.ncap["stdout"] = 1
    /\ realLog[Real("stdout")] = <<[s |-> "stdout", n |-> 1], [s |-> "captured_stdout", n |-> 1]>>
    /\ \E id \in Ids : /\ writers["stdout"][id] # None
                       /\ recv[writers["stdout"][id]] = <<[s |-> "stdout", n |-> 1]>>

\* C24: on an Intercepting forwarder, Add(id, w1), Remove(id), Add(id, w2) is a
\* plain insertion: no call on the forwarder has returned an error, the
\* registry binds id to w2, and a broadcast of that forwarder made in that
\* state writes w2 and no other writer (w1 in particular when it is not w2). Stated for the
\* forwarders on which a single id was ever used, so that the removal and the
\* new registration are of the same id.
C24_ReinsertAfterRemove ==
    \A f \in Streams :
        (/\ Intercepting(f) /\ hist.idsUsed[f] = 1
         /\ hist.gone[f] # {} /\ hist.reg[f][IdSeq[1]] # None)
        => /\ hist.errRet[f] = 0 /\ ~panicked
           /\ writers[f] = [EmptyMap EXCEPT ![IdSeq[1]] = hist.reg[f][IdSeq[1]]]
           /\ BroadcastDone(f) => WrittenIn(f) = {hist.reg[f][IdSeq[1]]}
           /\ cl[f].pc \in {"iter", "stuck"} => WrittenIn(f) \subseteq {hist.reg[f][IdSeq[1]]}
\* id "a" was bound to w1, removed and bound to w2; the chunk written after
\* that was broadcast to w2 alone
C24_Witness ==
    \E f \in Streams :
        /\ Intercepting(f) /\ hist.idsUsed[f] = 1
        /\ hist.gone[f] = {"w1"} /\ writers[f]["a"] = "w2"
        /\ BroadcastDone(f) /\ WrittenIn(f) = {"w2"}
        /\ recv["w1"] = <<>> /\ Len(recv["w2"]) = 1

\* C25: while the copy goroutine of a forwarder is inside the range of
\* forwarder.Write it holds the read lock, so no Add*Writer / Remove*Writer
\* changes that forwarder's registry before the range is over; and while it
\* is inside a w.Write that has not returned, nothing else of that forwarder
\* moves: the writers later in the iteration are not written, no further
\* chunk is read from the pipe and passed to out or to a writer (cl, the
\* writers written in the broadcast and the chunks read stay as they are).
C25_BlockedBroadcastHoldsAll ==
    [][\A f \in Streams :
         /\ cl[f].pc \in {"iter", "stuck"} =>
              /\ mu[f].r > 0
              /\ writers'[f] = writers[f]
              /\ \A t \in Callers :
                   (th[t].f = f /\ th[t].pc = "lock") => th'[t] = th[t]
         /\ cl[f].pc = "stuck" =>
              /\ cl'[f] = cl[f]
              /\ hist'.bc[f] = hist.bc[f]
              /\ hist'.read[f] = hist.read[f]]_vars
\* a writer of a forwarder with two registered writers does not return from
\* Write: the other writer has not been written the chunk, a later chunk
\* waits in the pipe
C25_Witness ==
    \E f \in Streams :
        /\ cl[f].pc = "stuck" /\ Len(hist.bc[f].order) = 1
        /\ Cardinality(cl[f].todo) = 2
        /\ writers[f]["a"] # writers[f]["b"]
        /\ \E id \in Ids : recv[writers[f][id]] = <<>>
        /\ pipe[f] # <<>>

\* the writers bound in registry r
Bound(r) == {r[i] : i \in RangeIds(r)}

\* C26: Remove*Writer takes the write lock, which it gets only when the copy
\* goroutine of that forwarder is outside the range of forwarder.Write: at the
\* removal no w.Write of that forwarder is in progress, and every w.Write the
\* copy goroutine starts is on a writer that is bound in the registry at that
\* time, so a removed writer is written again only if it is registered again.
C26_NoWriteAfterRemove ==
    [][\A f \in Streams :
         /\ (\E id \in Ids : Remove(f, id)) =>
              /\ cl[f].pc \notin {"iter", "stuck"} /\ mu[f].r = 0
              /\ cl'[f] = cl[f]
         /\ (CopyIter(f) \/ CopyStuck(f)) =>
              hist'.bc[f].order[Len(hist'.bc[f].order)] \in Bound(hist.reg[f])]_vars
\* w1 was written the first chunk and then removed: the broadcast of the
\* second chunk is over and w1 has not been written it
C26_Witness ==
    \E f \in Streams :
        /\ hist.gone[f] = {"w1"} /\ Bound(hist.reg[f]) = {}
        /\ BroadcastDone(f) /\ cl[f].chunk.n = 2
        /\ recv["w1"] = <<[s |-> cl[f].chunk.s, n |-> 1]>>

\* C27: a broadcast is atomic with respect to the registry: at every point of
\* the range of forwarder.Write the writers written so far together with the
\* writers still to be visited are the registry as it is now, entry for entry,
\* which is the registry as it was when the read lock was taken; at the end of
\* the range the writers written are those bound in the registry, each
\* once per entry.
C27_BroadcastAtomic ==
    \A f \in Streams :
        cl[f].pc = "iter" =>
          /\ cl[f].todo \subseteq RangeIds(writers[f])
          /\ Len(hist.bc[f].order) + Cardinality(cl[f].todo)
               = Cardinality(RangeIds(writers[f]))
          /\ WrittenIn(f) \cup {writers[f][id] : id \in cl[f].todo} = Bound(writers[f])
          /\ writers[f] = hist.reg[f]
\* half of a broadcast over two entries is done while an Add*Writer call on
\* the same forwarder waits for the lock
C27_Witness ==
    \E f \in Streams, t \in Callers :
        /\ cl[f].pc = "iter" /\ Len(hist.bc[f].order) = 1 /\ Cardinality(cl[f].todo) = 1
        /\ th[t].pc = "lock" /\ th[t].f = f

\* C28: a registered writer may call Remove*Writer on its own forwarder from
\* inside its Write: whenever the copy goroutine is in such a call, the call
\* can go on (it gets the lock, returns, and the range continues).
C28_NestedCallReturns ==
    \A f \in Streams : cl[f].pc = "nested" => ENABLED CopyNested(f)

\* C29: on an Intercepting forwarder the registry is linearizable as a map.
\* The registry is always the map obtained by applying the operations of the
\* calls one at a time, each at one step between its call and its return
\* (hist.reg: insert-or-replace at the Insert step of an Add*Writer call,
\* delete at a Remove*Writer call), so no update is lost; and whenever that
\* map changes the step is such an Insert, which binds its id to its writer
\* and keeps every other entry, or such a Remove, which unbinds its id and
\* keeps every other entry.
C29_RegistryLinearizable ==
    [][\A f \in Streams :
         Intercepting(f) =>
           /\ writers[f] = hist.reg[f] /\ writers'[f] = hist'.reg[f]
           /\ hist'.reg[f] # hist.reg[f] =>
                \/ \E t \in Callers, id \in Ids, w \in Writers :
                     /\ th[t].f = f /\ Insert(t, id, w)
                     /\ writers'[f] = [i \in Ids |-> IF i = id THEN w ELSE writers[f][i]]
                \/ \E id \in Ids :
                     /\ Remove(f, id)
                     /\ writers'[f] = [i \in Ids |-> IF i = id THEN None ELSE writers[f][i]]]_vars
\* two Add*Writer calls on a forwarder that already has an entry are both at
\* dest.mu.Lock()
C29_Witness ==
    \E f \in Streams :
        /\ Intercepting(f) /\ RangeIds(writers[f]) # {}
        /\ \A t \in Callers : th[t].pc = "lock" /\ th[t].f = f

\* C30: Execute runs validate and the action, and writes the inventory file,
\* only when the state of the inventory at the start of Execute is one of the
\* declared initial states; when it is not (and the flags were parsed),
\* Execute ends with exit code 1 having run neither and written nothing,
\* whatever list of states WithStateTransition was given.
C30_RunsOnlyFromDeclaredState ==
    LET declared == StateFound(cmd.fromStates, CurrentState(cmd.file0)) IN
      /\ (cmd.ranValidate \/ cmd.ranAction \/ cmd.written # NotWritten) => declared
      /\ (cmd.pc = "exit" /\ cmd.exit # 2 /\ ~cmd.help /\ ~declared) =>
           /\ cmd.exit = 1
           /\ ~cmd.ranValidate /\ ~cmd.ranAction /\ cmd.written = NotWritten

\* the steps of Execute before the write went through: the flags were parsed
\* without usage or error, the inventory check (when the inventory is required)
\* read the file and found its state declared, validate (when there is one)
\* and the action ran and returned no error
StepsSucceeded ==
    /\ parseFlags(cmd.args) = [showedUsage |-> FALSE, err |-> FALSE]
    /\ requireInventory(cmd.fromStates) =>
         cmd.read /\ StateFound(cmd.fromStates, cmd.file0)
    /\ cmd.hasValidate => cmd.ranValidate
    /\ cmd.ranAction
    /\ cmd.cause \in {"done", "write"}
WriteCalled == cmd.written # NotWritten \/ cmd.cause = "write"

\* C31: Execute calls inventory.Write if and only if flag parsing, the
\* inventory check, validate and the action all succeeded and the final state
\* is not Null; what a successful Write leaves in the file is the final state;
\* until then, and on every return caused by the flags, the inventory read,
\* the state check, validate or the action (all with a non-zero exit code
\* except -h), the file is as Execute found it.
C31_WritesIffAllSucceeded ==
    /\ cmd.pc # "exit" => cmd.file = cmd.file0 /\ cmd.written = NotWritten
    /\ cmd.pc = "exit" =>
         /\ WriteCalled <=> (StepsSucceeded /\ cmd.toState # Null)
         /\ cmd.written # NotWritten =>
              cmd.written = cmd.toState /\ cmd.file = cmd.toState /\ cmd.exit = 0
         /\ cmd.cause \in {"usage", "flags", "read", "state", "validate", "action"} =>
              cmd.exit # 0
         /\ cmd.cause # "write" /\ cmd.written = NotWritten => cmd.file = cmd.file0
\* a command with a validate function went from the declared state s1 to s2:
\* the inventory was read, validate and the action ran, the file holds s2
C31_Witness ==
    /\ cmd.pc = "exit" /\ cmd.exit = 0
    /\ cmd.fromStates = <<"s1">> /\ cmd.toState = "s2" /\ cmd.file0 = "s1"
    /\ cmd.read /\ cmd.ranValidate /\ cmd.ranAction
    /\ cmd.written = "s2" /\ cmd.file = "s2"

\* what holds of the channel and the goroutine at every moment: the channel is
\* closed at most once and nothing is sent on it once closed; cancel() has been
\* called only if a signal was relayed to the channel; when the deferred
\* function has returned the goroutine has ended, and cancel() has been called
\* if a signal was relayed before signal.Stop
SignalHandlerSafe ==
    /\ cmd.closes <= 1 /\ ~cmd.sentClosed
    /\ cmd.chClosed => ~cmd.notify
    /\ cmd.cancelled => cmd.relayed > 0
    /\ cmd.cleanup = "returned" =>
         /\ cmd.handler = "done"
         /\ cmd.relayed > 0 => cmd.cancelled

\* C32: the signal goroutine started by Execute ends and the deferred function
\* (signal.Stop, close, wg.Wait) returns once Execute has reached a return,
\* whether no signal came, a signal was relayed before signal.Stop, or a signal
\* is still in the channel when it is closed; cancel() is called for a signal
\* relayed before signal.Stop; the channel is closed once and never sent on
\* after that. (A signal sent after signal.Stop is not relayed: its default
\* action ends the process.)
C32_SignalHandlerEnds ==
    /\ []SignalHandlerSafe
    /\ (cmd.pc = "exit") ~>
         (cmd.killed \/ (cmd.cleanup = "returned" /\ cmd.handler = "done"))
\* Execute returned 0 after a signal was relayed: cancel() was called, the
\* goroutine ended and the deferred function returned
C32_Witness ==
    /\ cmd.pc = "exit" /\ cmd.exit = 0 /\ ~cmd.killed
    /\ cmd.cleanup = "returned" /\ cmd.handler = "done"
    /\ cmd.relayed = 1 /\ cmd.cancelled /\ cmd.chClosed

\* C33: Execute returns 0, 1 or 2 and nothing else: 2 exactly when fSet.Parse
\* failed or positional arguments remained; 0 when -h / --help was given with
\* flags that parse, having read nothing, run nothing and written nothing; 1
\* exactly when the inventory read, the state check, validate, the action or
\* the inventory write failed; 0 otherwise, which is after an action that
\* returned no error.
C33_ExitCodes ==
    /\ cmd.pc # "exit" => cmd.exit = -1
    /\ cmd.pc = "exit" =>
         /\ cmd.exit \in {0, 1, 2}
         /\ cmd.exit = 2 <=> (cmd.args.parseErr \/ cmd.args.positional)
         /\ (cmd.args.help /\ ~cmd.args.parseErr /\ ~cmd.args.positional) =>
              /\ cmd.exit = 0 /\ cmd.cause = "help"
              /\ ~cmd.read /\ ~cmd.ranValidate /\ ~cmd.ranAction
              /\ cmd.written = NotWritten /\ cmd.file = cmd.file0
         /\ cmd.exit = 1 <=> cmd.cause \in {"read", "state", "validate", "action", "write"}
         /\ (cmd.exit = 0 /\ cmd.cause # "help") => cmd.ranAction /\ cmd.cause = "done"
\* the action succeeded and inventory.Write failed: exit code 1
C33_Witness ==
    /\ cmd.pc = "exit" /\ cmd.exit = 1 /\ cmd.cause = "write"
    /\ cmd.ranAction /\ cmd.written = NotWritten

====
